---- MODULE Spec2Model ----
(***************************************************************************)
(* Workspace synchronisation of the text IDE front end.                    *)
(*                                                                         *)
(* Part I  : the Connection Manager, frontend/src/hooks/useWebSocket.ts    *)
(*           (module-level globalWebSocket / globalListeners /             *)
(*           connectionPromise, createConnection, the subscribe effect     *)
(*           of useWebSocket and sendMessage), specification Spec.         *)
(* Part II : the Reconciliation Engine of one tab, frontend/src/App.tsx    *)
(*           and frontend/src/components/FileEditor.tsx, specification     *)
(*           DocSpec.                                                      *)
(* Part III: the hot-patch of the Monaco editor's cursor and selection,    *)
(*           updateContentWithoutFocus of FileEditor.tsx, specification    *)
(*           PatchSpec.                                                    *)
(* Part IV : one tab together with the server's Change Broadcast Hub       *)
(*           (debounce, compare with the last broadcast state, emit), the  *)
(*           Hub as the design document describes it: its code is not in   *)
(*           the source tree.  Specification SyncSpec; the Hub on its own  *)
(*           (raw notifications, debounce, connection admission) is        *)
(*           specification HubSpec.                                        *)
(* Part V  : the file tree, frontend/src/components/FileTree.tsx,          *)
(*           specification TreeSpec.                                       *)
(***************************************************************************)
EXTENDS Integers, FiniteSets, Sequences, Bags, TLC

(***************************************************************************)
(* Bounds of the model.                                                    *)
(***************************************************************************)
\* hook instances (components calling useWebSocket) that can be mounted
NumListeners == 2
\* sockets not yet closed plus reconnect timers not yet fired
MaxLive == 2

\* distinct file contents
NumContents == 2
\* requests to /api/file-content and /api/open-directory in flight
MaxFetches == 2
\* requests to /api/write-file in flight
MaxWrites == 1
\* requests to /api/write-file in flight while only the user acts (EditSpec)
MaxEditWrites == 2
\* changes made to a file by other tabs or processes (SyncSpec)
MaxChanges == 2
\* events broadcast to the tab and not yet handled (SyncSpec)
MaxInbox == 1
\* calls of onFileSelect that are recorded (TreeSpec)
MaxCalls == 2
\* raw notifications counted within one debounce window (HubSpec)
MaxRaw == 3
\* lines of a document, and characters of a line
MaxLines == 2
MaxLineLen == 2

Listeners == 1..NumListeners
SocketIds == 1..MaxLive

\* "no socket" / "no promise" (null in the source)
Null == 0

\* WebSocket close codes the server or the browser can report
\* (1000 normal closure, 1006 abnormal closure, 1008 "too many connections")
CloseTooMany == 1008
CloseCodes == {1000, 1006, CloseTooMany}

VARIABLES
    \* ---- Part I: useWebSocket.ts ----
    revision,           \* which revision of the hook is built: 1 (l.1-163) or 2 (l.164-334)
    sockets,            \* WebSocket objects whose close event has not fired: id -> readyState
    globalWebSocket,    \* let globalWebSocket
    globalListeners,    \* let globalListeners
    connectionPromise,  \* let connectionPromise: the socket the promise is tied to, or Null
    timers,             \* reconnect timers set by ws.onclose and not yet fired
    notified,           \* listeners invoked by the most recent ws.onmessage
    lastOp,             \* history: the handler that ran last (and what it did)
    rejected,           \* history: a close with code 1008 was handled and no hook call followed
    reconnectDue,       \* history: a non-1008 close with a listener registered awaits its retry
    viaTimer,           \* history: the sockets the reconnect timer's callback constructed
    heardOn,            \* history: the socket of the most recent ws.onmessage
    \* ---- Part II: App.tsx, FileEditor.tsx ----
    rootPath,           \* useState rootPath ('' until a directory is loaded)
    selectedFile,       \* useState selectedFile
    fileContent,        \* useState fileContent
    isLoading,          \* useState isLoading
    editor,             \* the mounted Monaco editor (editorRef.current), or NoEditor
    disk,               \* the files behind the file API: path -> content, or Absent
    fetches,            \* bag of GET/POST requests whose continuation has not run
    writes,             \* bag of /api/write-file requests in flight
    notice,             \* what the last handler reported: its alert() (which blocks until
                        \* dismissed) or the console.warn of the smart update's catch
    \* ---- Part III: the Monaco editor of FileEditor.tsx ----
    model,              \* editor.getModel(): the text, as the length of each line
    selection,          \* the editor's selection: anchor and active end (the cursor)
    patched,            \* history: the last step was a hot-patch
    \* ---- Part IV: the Hub and the wire ----
    hubLast,            \* the state of each path the Hub broadcast last
    hubDirty,           \* paths with a raw notification whose debounce timer runs
    inbox,              \* events sent to the tab's socket and not yet handled
    changes,            \* changes other writers have made so far
    rawCount,           \* raw notifications in each path's running debounce window
    lastExpiry,         \* history: the last timer expiry (path, notifications, events)
    attached,           \* the Connections the Hub holds
    lastAccept,         \* history: the outcome of the last accept
    \* ---- Part V: FileTree.tsx ----
    isExpanded,         \* useState isExpanded of each directory's TreeNode
    onFileSelectCalls   \* history: the arguments of the calls of the onFileSelect prop

connVars == <<revision, sockets, globalWebSocket, globalListeners, connectionPromise,
              timers, notified, lastOp, rejected, reconnectDue, viaTimer, heardOn>>

docVars == <<rootPath, selectedFile, fileContent, isLoading, editor, disk, fetches,
             writes, notice>>

patchVars == <<model, selection, patched>>

admitVars == <<attached, lastAccept>>

hubVars == <<hubLast, hubDirty, inbox, changes, rawCount, lastExpiry, admitVars>>

treeVars == <<isExpanded, onFileSelectCalls>>

vars == <<connVars, docVars, patchVars, hubVars, treeVars>>

\* sockets that count as a live underlying connection
LiveSockets == {s \in DOMAIN sockets : sockets[s] \in {"CONNECTING", "OPEN"}}

\* number of sockets and timers in existence (bounded by MaxLive)
Load == Cardinality(DOMAIN sockets) + timers

\* the id the next `new WebSocket(url)` gets: the smallest one not in use
NewSocketId == CHOOSE i \in SocketIds :
                   /\ i \notin DOMAIN sockets
                   /\ \A j \in SocketIds : j \notin DOMAIN sockets => i <= j

RemoveSocket(s) == [t \in DOMAIN sockets \ {s} |-> sockets[t]]

(***************************************************************************)
(* createConnection(url): resolves with the global socket when it is OPEN, *)
(* otherwise constructs a new WebSocket (readyState CONNECTING).  The two  *)
(* operators give the socket table after the call and the socket the       *)
(* returned promise is tied to.                                            *)
(***************************************************************************)
ReusesOpenSocket(gws) == gws # Null /\ gws \in DOMAIN sockets /\ sockets[gws] = "OPEN"

createConnectionSockets(gws) ==
    IF ReusesOpenSocket(gws)
    THEN sockets
    ELSE [t \in DOMAIN sockets \cup {NewSocketId} |->
              IF t = NewSocketId THEN "CONNECTING" ELSE sockets[t]]

createConnectionPromise(gws) ==
    IF ReusesOpenSocket(gws) THEN gws ELSE NewSocketId

\* room for the socket a createConnection call may construct
CanCreate(gws) == ReusesOpenSocket(gws) \/ Load < MaxLive

(***************************************************************************)
(* useWebSocket: the subscribe effect (a hook instance mounts).            *)
(***************************************************************************)
\* an effect that calls createConnection on every run
AlwaysConnects(promise) == TRUE

\* "Create connection if it doesn't exist" (l.105)
NeedsConnection(promise) == promise = Null

Subscribe(l) ==
    /\ l \notin globalListeners
    /\ NeedsConnection(connectionPromise) => CanCreate(globalWebSocket)
    /\ globalListeners' = globalListeners \cup {l}
    /\ IF NeedsConnection(connectionPromise)
       THEN /\ connectionPromise' = createConnectionPromise(globalWebSocket)
            /\ sockets' = createConnectionSockets(globalWebSocket)
       ELSE UNCHANGED <<connectionPromise, sockets>>
    /\ rejected' = FALSE
    /\ lastOp' = "subscribe"
    /\ UNCHANGED <<revision, viaTimer, heardOn, globalWebSocket, timers, notified, reconnectDue>>

(***************************************************************************)
(* useWebSocket: the effect cleanup (a hook instance unmounts).            *)
(***************************************************************************)
\* a cleanup that closes the socket whenever any hook instance unmounts
ClosesOnAnyCleanup(remaining, gws) == gws # Null

\* the cleanup's test for closing the shared socket
ClosesOnCleanup(remaining, gws) == remaining = {} /\ gws # Null

Unsubscribe(l) ==
    /\ l \in globalListeners
    /\ globalListeners' = globalListeners \ {l}
    /\ IF ClosesOnCleanup(globalListeners \ {l}, globalWebSocket)
       THEN /\ sockets' = [sockets EXCEPT ![globalWebSocket] = "CLOSING"]
            /\ globalWebSocket' = Null
            /\ connectionPromise' = Null
       ELSE UNCHANGED <<sockets, globalWebSocket, connectionPromise>>
    /\ rejected' = FALSE
    /\ lastOp' = "unsubscribe"
    /\ UNCHANGED <<revision, viaTimer, heardOn, timers, notified, reconnectDue>>

(***************************************************************************)
(* ws.onopen: the handshake of socket s completes.                         *)
(***************************************************************************)
OnOpen(s) ==
    /\ s \in DOMAIN sockets
    /\ sockets[s] = "CONNECTING"
    /\ sockets' = [sockets EXCEPT ![s] = "OPEN"]
    /\ globalWebSocket' = s
    /\ lastOp' = "open"
    /\ UNCHANGED <<revision, viaTimer, heardOn, globalListeners, connectionPromise, timers, notified,
                   rejected, reconnectDue>>

(***************************************************************************)
(* ws.onmessage: a frame arrives on socket s and is broadcast to every     *)
(* registered listener.                                                    *)
(***************************************************************************)
\* a socket that serves only one hook instance (the per-hook socket of
\* l.335-443)
OneListenerOnly(listeners) ==
    {l \in listeners : \A k \in listeners : l <= k}

\* globalListeners.forEach(listener => listener(message)): each element of
\* the Set, once
forEachListener(listeners) == listeners

OnMessage(s) ==
    /\ s \in DOMAIN sockets
    /\ sockets[s] = "OPEN"
    /\ notified' = forEachListener(globalListeners)
    /\ heardOn' = s
    /\ lastOp' = "message"
    /\ UNCHANGED <<revision, viaTimer, sockets, globalWebSocket, globalListeners, connectionPromise,
                   timers, rejected, reconnectDue>>

(***************************************************************************)
(* ws.onerror / ws.onclose: socket s fails to connect (error, then close   *)
(* with 1006), is closed by the server, or finishes the close the cleanup  *)
(* started.  onerror only rejects the promise of s.                        *)
(***************************************************************************)
\* an onclose that retries only after an abnormal closure
ScheduleReconnectAbnormalOnly(code, listeners, pending) ==
    IF code = 1006 /\ listeners # {} THEN pending + 1 ELSE pending

\* the reconnect timers after the handler ran (l.55-67)
ScheduleReconnect(code, listeners, pending) ==
    IF code = CloseTooMany THEN pending
    ELSE IF listeners # {} THEN pending + 1
    ELSE pending

CodesFor(state) == IF state = "CONNECTING" THEN {1006} ELSE CloseCodes

OnClose(s, code) ==
    /\ s \in DOMAIN sockets
    /\ code \in CodesFor(sockets[s])
    /\ sockets' = RemoveSocket(s)
    /\ globalWebSocket' = Null
    /\ connectionPromise' = Null
    /\ timers' = ScheduleReconnect(code, globalListeners, timers)
    /\ rejected' = IF code = CloseTooMany THEN TRUE ELSE rejected
    /\ reconnectDue' = IF code # CloseTooMany /\ globalListeners # {}
                       THEN TRUE ELSE reconnectDue
    /\ lastOp' = IF code = CloseTooMany THEN "rejected" ELSE "close"
    /\ viaTimer' = viaTimer \ {s}
    /\ heardOn' = IF heardOn = s THEN Null ELSE heardOn
    /\ UNCHANGED <<revision, globalListeners, notified>>

(***************************************************************************)
(* The setTimeout callback of ws.onclose fires.                            *)
(***************************************************************************)
TimerFire ==
    /\ timers > 0
    /\ timers' = timers - 1
    /\ connectionPromise' = createConnectionPromise(globalWebSocket)
    /\ sockets' = createConnectionSockets(globalWebSocket)
    /\ reconnectDue' = FALSE
    /\ viaTimer' = viaTimer \cup (DOMAIN sockets' \ DOMAIN sockets)
    /\ lastOp' = "timer"
    /\ UNCHANGED <<revision, heardOn, globalWebSocket, globalListeners, notified, rejected>>

(***************************************************************************)
(* sendMessage, in the two revisions of the hook.                          *)
(***************************************************************************)
IsOpen(gws) == gws # Null /\ sockets[gws] = "OPEN"

\* revision 1 (l.145-156): send when open, else warn
sendMessageV1 ==
    /\ lastOp' = IF IsOpen(globalWebSocket) THEN "sent" ELSE "dropped"
    /\ UNCHANGED <<sockets, connectionPromise>>

\* revision 2 (l.312-327): send when open, else try to reconnect
sendMessageV2 ==
    /\ lastOp' = IF IsOpen(globalWebSocket) THEN "sent" ELSE "dropped"
    /\ IF ~IsOpen(globalWebSocket) /\ connectionPromise = Null
       THEN /\ Load < MaxLive
            /\ connectionPromise' = createConnectionPromise(globalWebSocket)
            /\ sockets' = createConnectionSockets(globalWebSocket)
       ELSE UNCHANGED <<sockets, connectionPromise>>

sendMessage ==
    /\ IF revision = 1 THEN sendMessageV1 ELSE sendMessageV2
    /\ rejected' = FALSE
    /\ UNCHANGED <<revision, viaTimer, heardOn, globalWebSocket, globalListeners, timers, notified, reconnectDue>>

(***************************************************************************)
(* The subscribe effect's body and its cleanup run as bare operations on   *)
(* the module-level state: the body for a listener that is already in      *)
(* globalListeners, the cleanup for one that is not.  (React itself runs   *)
(* the two alternately for one hook instance.)  lastOp tells a repetition  *)
(* that directly follows the same operation from any other one.            *)
(***************************************************************************)
Resubscribe(l) ==
    /\ l \in globalListeners
    /\ NeedsConnection(connectionPromise) => CanCreate(globalWebSocket)
    /\ globalListeners' = globalListeners \cup {l}
    /\ IF NeedsConnection(connectionPromise)
       THEN /\ connectionPromise' = createConnectionPromise(globalWebSocket)
            /\ sockets' = createConnectionSockets(globalWebSocket)
       ELSE UNCHANGED <<connectionPromise, sockets>>
    /\ rejected' = FALSE
    /\ lastOp' = IF lastOp \in {"subscribe", "subscribeAgain"}
                 THEN "subscribeAgain" ELSE "resubscribe"
    /\ UNCHANGED <<revision, viaTimer, heardOn, globalWebSocket, timers, notified, reconnectDue>>

Reunsubscribe(l) ==
    /\ l \notin globalListeners
    /\ globalListeners' = globalListeners \ {l}
    /\ IF ClosesOnCleanup(globalListeners \ {l}, globalWebSocket)
       THEN /\ sockets' = [sockets EXCEPT ![globalWebSocket] = "CLOSING"]
            /\ globalWebSocket' = Null
            /\ connectionPromise' = Null
       ELSE UNCHANGED <<sockets, globalWebSocket, connectionPromise>>
    /\ rejected' = FALSE
    /\ lastOp' = IF lastOp \in {"unsubscribe", "unsubscribeAgain"}
                 THEN "unsubscribeAgain" ELSE "reunsubscribe"
    /\ UNCHANGED <<revision, viaTimer, heardOn, timers, notified, reconnectDue>>

(***************************************************************************)
(* Part II: one tab's Reconciliation Engine (App.tsx, FileEditor.tsx).     *)
(***************************************************************************)
\* the directory the server reports as root_path, and '' (no root loaded)
RootDir == <<"r">>
NoRoot == <<>>
\* a file inside the root and a file outside it (opened through the chat
\* panel's onFileGenerated, or left selected from another root)
InsideFile == <<"r", "/", "a">>
OutsideFile == <<"x">>
Paths == {InsideFile, OutsideFile}
\* a file in a sibling directory whose name starts with the root's name
\* (root /a/b, file /a/bc/x); events carry it, the user never opens it
SiblingFile == <<"r", "b", "/", "x">>
Contents == 1..NumContents

\* a file that does not exist, a request not yet answered, a failed request
Absent == 0
Pending == -1
Failed == -2

\* null (selectedFile, fileContent, editorRef.current)
NoFile == <<>>
NoContent == [path |-> NoFile, content |-> Absent]
NoEditor == [path |-> NoFile, text |-> Absent, unsaved |-> FALSE]

\* String.prototype.startsWith
StartsWith(path, prefix) ==
    /\ Len(path) >= Len(prefix)
    /\ SubSeq(path, 1, Len(prefix)) = prefix

\* message.sender compared with this tab's tabId
Senders == {"self", "other"}
MessageTypes == {"file_changed", "sync_tabs", "file_deleted"}
Messages == [type : MessageTypes, path : Paths, sender : Senders]
\* the events of a server that watches more than the displayed root:
\* message.path is a file the tab can open, the sibling's file, or absent
EventPaths == Paths \cup {SiblingFile, NoFile}
AnyMessages == [type : MessageTypes, path : EventPaths, sender : Senders]

\* requests in flight; resp is Pending until the server has answered
FileReq(kind, path) == [kind |-> kind, path |-> path, resp |-> Pending]
DirReq(path) == [kind |-> "dir", path |-> path, resp |-> Pending]
Add(bag, r) == bag (+) SetToBag({r})
Remove(bag, r) == bag (-) SetToBag({r})

\* updateEditorContentRef.current is set by FileEditor's effect on its
\* first render and never cleared
updateEditorContentRefSet == TRUE

(***************************************************************************)
(* FileEditor's render: the Monaco <Editor key=path defaultValue=content>  *)
(* exists only while !isLoading and fileContent is set; it is created with *)
(* fileContent.content, and recreated when the key (the path) changes.     *)
(***************************************************************************)
Mount(fc) == [path |-> fc.path, text |-> fc.content, unsaved |-> FALSE]

Render(fc, loading, ed) ==
    IF loading \/ fc = NoContent THEN NoEditor
    ELSE IF ed # NoEditor /\ ed.path = fc.path THEN ed
    ELSE Mount(fc)

(***************************************************************************)
(* updateContentWithoutFocus(newContent): editor.setValue on the editor    *)
(* editorRef.current refers to; nothing when no editor is mounted.         *)
(***************************************************************************)
updateContentWithoutFocus(ed, newContent) ==
    IF ed = NoEditor THEN ed
    ELSE [ed EXCEPT !.text = newContent, !.unsaved = FALSE]

(***************************************************************************)
(* handleFileSelect(filePath): setSelectedFile, then loadFileContent.      *)
(***************************************************************************)
handleFileSelect(p) ==
    /\ BagCardinality(fetches) < MaxFetches
    /\ selectedFile' = p
    /\ isLoading' = TRUE
    /\ fetches' = Add(fetches, FileReq("load", p))
    /\ editor' = Render(fileContent, TRUE, editor)
    /\ notice' = "none"
    /\ UNCHANGED <<rootPath, fileContent, disk, writes>>

(***************************************************************************)
(* The server answers a file-content request: the content on disk at that  *)
(* moment, or an error (file absent, or a transient failure).              *)
(***************************************************************************)
ServerReadAnswer(r, answer) ==
    /\ BagIn(r, fetches)
    /\ r.kind \in {"load", "smart"}
    /\ r.resp = Pending
    /\ fetches' = Add(Remove(fetches, r),
                      [r EXCEPT !.resp = IF answer = Absent THEN Failed ELSE answer])
    /\ notice' = "none"
    /\ UNCHANGED <<rootPath, selectedFile, fileContent, isLoading, editor, disk, writes>>

ServerRead(r) ==
    /\ BagIn(r, fetches)
    /\ r.kind \in {"load", "smart"}
    /\ \E answer \in {disk[r.path], Failed} : ServerReadAnswer(r, answer)

(***************************************************************************)
(* loadFileContent: the continuation after its fetch.                      *)
(***************************************************************************)
LoadDeliver(r) ==
    /\ BagIn(r, fetches)
    /\ r.kind = "load"
    /\ r.resp # Pending
    /\ fetches' = Remove(fetches, r)
    /\ IF r.resp = Failed
       THEN /\ notice' = "loadError"
            /\ UNCHANGED fileContent
       ELSE /\ fileContent' = [path |-> r.path, content |-> r.resp]
            /\ notice' = "none"
    /\ isLoading' = FALSE
    /\ editor' = Render(fileContent', FALSE, editor)
    /\ UNCHANGED <<rootPath, selectedFile, disk, writes>>

(***************************************************************************)
(* loadDirectory: the continuation after its fetch.                        *)
(***************************************************************************)
DirDeliver(r, ok) ==
    /\ BagIn(r, fetches)
    /\ r.kind = "dir"
    /\ fetches' = Remove(fetches, r)
    /\ IF ok
       THEN rootPath' = RootDir /\ notice' = "none"
       ELSE notice' = "dirError" /\ UNCHANGED rootPath
    /\ isLoading' = FALSE
    /\ editor' = Render(fileContent, FALSE, editor)
    /\ UNCHANGED <<selectedFile, fileContent, disk, writes>>

(***************************************************************************)
(* handleWebSocketMessage(message), up to its first await.                 *)
(***************************************************************************)
\* the test before loadDirectory(rootPath) (l.192, l.249)
RefreshesTree(m) == rootPath # NoRoot /\ m.path # NoFile /\ StartsWith(m.path, rootPath)

\* the test before the smart update (l.199, l.224); message.sender is not read
ReloadsOpenFile(m) == selectedFile # NoFile /\ m.path = selectedFile

\* the requests the handler starts for a file_changed / sync_tabs message
\* whose path is the open file
ReloadRequest(m) ==
    IF updateEditorContentRefSet
    THEN FileReq("smart", selectedFile)
    ELSE FileReq("load", selectedFile)

\* a file_deleted branch that leaves the selection in place
SelectedKeptAfterDelete(m) == selectedFile

\* setSelectedFile in the file_deleted branch (l.256-259)
SelectedAfterDelete(m) == IF ReloadsOpenFile(m) THEN NoFile ELSE selectedFile

\* a handler that never re-lists the tree
NoTreeRequests(m) == EmptyBag

\* loadDirectory(rootPath) of the file_changed and file_deleted branches
TreeRequests(m) ==
    IF m.type \in {"file_changed", "file_deleted"} /\ RefreshesTree(m)
    THEN SetToBag({DirReq(rootPath)}) ELSE EmptyBag

\* the fetch of the file_changed and sync_tabs branches
FileRequests(m) ==
    IF m.type \in {"file_changed", "sync_tabs"} /\ ReloadsOpenFile(m)
    THEN SetToBag({ReloadRequest(m)}) ELSE EmptyBag

\* isLoading after the handler's synchronous part: loadDirectory and
\* loadFileContent call setIsLoading(true), the smart update does not
LoadingAfter(m) ==
    IF TreeRequests(m) # EmptyBag \/ (FileRequests(m) # EmptyBag /\ ~updateEditorContentRefSet)
    THEN TRUE ELSE isLoading

handleWebSocketMessage(m) ==
    LET started  == TreeRequests(m) (+) FileRequests(m)
        loading  == LoadingAfter(m)
    IN  /\ BagCardinality(fetches) + BagCardinality(started) <= MaxFetches
        /\ fetches' = fetches (+) started
        /\ isLoading' = loading
        /\ IF m.type = "file_deleted" /\ ReloadsOpenFile(m)
           THEN /\ notice' = "deleted"
                /\ selectedFile' = SelectedAfterDelete(m)
                /\ fileContent' = NoContent
           ELSE notice' = "none" /\ UNCHANGED <<selectedFile, fileContent>>
        /\ editor' = Render(fileContent', loading, editor)
        /\ UNCHANGED <<rootPath, disk, writes>>

(***************************************************************************)
(* The user types, or editor.setValue runs: Monaco reports the content     *)
(* change, <Editor onChange> calls handleEditorChange, which calls         *)
(* handleFileContentChange(newContent), up to the write request.           *)
(***************************************************************************)
\* the write handleFileContentChange starts (none without a selected file)
handleFileContentChange(newContent) ==
    IF selectedFile = NoFile THEN EmptyBag
    ELSE SetToBag({[path |-> selectedFile, content |-> newContent]})

\* onChange of the mounted editor ed (a disposed editor reports nothing)
handleEditorChange(ed, value) ==
    IF ed = NoEditor THEN EmptyBag ELSE handleFileContentChange(value)

(***************************************************************************)
(* handleWebSocketMessage: the continuation after the smart update's       *)
(* fetch.  r.path is the selectedFile the handler closed over.             *)
(***************************************************************************)
\* a catch block that only logs
NoFallback(r) == EmptyBag

\* catch: loadFileContent(selectedFile) (l.212-215, l.237-240)
FallbackRequests(r) == SetToBag({FileReq("load", r.path)})

SmartDeliver(r) ==
    /\ BagIn(r, fetches)
    /\ r.kind = "smart"
    /\ r.resp # Pending
    /\ IF r.resp = Failed
       THEN /\ fetches' = Remove(fetches, r) (+) FallbackRequests(r)
            /\ isLoading' = IF FallbackRequests(r) = EmptyBag THEN isLoading ELSE TRUE
            /\ editor' = Render(fileContent, isLoading', editor)
            /\ notice' = "fallback"
            /\ UNCHANGED <<fileContent, writes>>
       ELSE \* updateEditorContentRef.current(content.content); setFileContent(content)
            /\ BagCardinality(writes) + BagCardinality(handleEditorChange(editor, r.resp))
                  <= MaxWrites
            /\ fetches' = Remove(fetches, r)
            /\ fileContent' = [path |-> r.path, content |-> r.resp]
            /\ editor' = Render(fileContent', isLoading,
                                updateContentWithoutFocus(editor, r.resp))
            /\ writes' = writes (+) handleEditorChange(editor, r.resp)
            /\ notice' = "none"
            /\ UNCHANGED isLoading
    /\ UNCHANGED <<rootPath, selectedFile, disk>>

(***************************************************************************)
(* The user types in the mounted editor.                                   *)
(***************************************************************************)
\* the text becomes c; limit caps the write requests in flight
KeystrokeUpTo(c, limit) ==
    /\ editor # NoEditor
    /\ c # editor.text
    /\ BagCardinality(writes) + BagCardinality(handleEditorChange(editor, c)) <= limit
    /\ editor' = [editor EXCEPT !.text = c, !.unsaved = TRUE]
    /\ writes' = writes (+) handleEditorChange(editor, c)
    /\ notice' = "none"
    /\ UNCHANGED <<rootPath, selectedFile, fileContent, isLoading, disk, fetches>>

Keystroke(c) == KeystrokeUpTo(c, MaxWrites)

(***************************************************************************)
(* /api/write-file answers: the content is on disk, or the request failed  *)
(* and handleFileContentChange alerts.                                     *)
(***************************************************************************)
WriteDeliver(w, ok) ==
    /\ BagIn(w, writes)
    /\ writes' = Remove(writes, w)
    /\ IF ok
       THEN /\ disk' = [disk EXCEPT ![w.path] = w.content]
            /\ editor' = IF editor # NoEditor /\ editor.text = w.content
                         THEN [editor EXCEPT !.unsaved = FALSE] ELSE editor
            /\ notice' = "none"
       ELSE /\ notice' = "saveError"
            /\ UNCHANGED <<disk, editor>>
    /\ UNCHANGED <<rootPath, selectedFile, fileContent, isLoading, fetches>>

(***************************************************************************)
(* Another tab or process changes or removes a file.                       *)
(***************************************************************************)
ExternalWrite(p, c) ==
    /\ disk[p] # c
    /\ disk' = [disk EXCEPT ![p] = c]
    /\ notice' = "none"
    /\ UNCHANGED <<rootPath, selectedFile, fileContent, isLoading, editor, fetches, writes>>

ExternalDelete(p) ==
    /\ disk[p] # Absent
    /\ disk' = [disk EXCEPT ![p] = Absent]
    /\ notice' = "none"
    /\ UNCHANGED <<rootPath, selectedFile, fileContent, isLoading, editor, fetches, writes>>

FetchRecords == [kind : {"load", "smart", "dir"}, path : Paths \cup {RootDir, NoRoot},
                 resp : {Pending, Failed} \cup Contents]
WriteRecords == [path : Paths, content : Contents]

(***************************************************************************)
(* Part III: updateContentWithoutFocus on the Monaco editor.  A text is    *)
(* the sequence of its lines' lengths (Monaco's model of '' is one empty   *)
(* line); positions are 1-based, and a line of n characters has columns    *)
(* 1..n+1.                                                                 *)
(***************************************************************************)
Min(a, b) == IF a <= b THEN a ELSE b

Texts == UNION {[1..n -> 0..MaxLineLen] : n \in 1..MaxLines}

Position(l, c) == [lineNumber |-> l, column |-> c]
Positions == [lineNumber : 1..MaxLines, column : 1..(MaxLineLen + 1)]

\* model.getLineCount(), model.getLineMaxColumn(lineNumber)
getLineCount(m) == Len(m)
getLineMaxColumn(m, lineNumber) == m[lineNumber] + 1

InBounds(pos, m) ==
    /\ pos.lineNumber \in 1..getLineCount(m)
    /\ pos.column \in 1..getLineMaxColumn(m, pos.lineNumber)

\* position order (line first, then column)
Before(p, q) ==
    \/ p.lineNumber < q.lineNumber
    \/ p.lineNumber = q.lineNumber /\ p.column <= q.column

\* editor.getPosition(): the active end of the selection
getPosition(sel) == sel.active

\* editor.getSelection(), as far as the code reads it: the Range fields of
\* the Selection, which are ordered (start before end) whatever the
\* direction in which the selection was made
getSelection(sel) ==
    LET start == IF Before(sel.anchor, sel.active) THEN sel.anchor ELSE sel.active
        end   == IF Before(sel.anchor, sel.active) THEN sel.active ELSE sel.anchor
    IN  [startLineNumber |-> start.lineNumber, startColumn |-> start.column,
         endLineNumber |-> end.lineNumber, endColumn |-> end.column]

\* l.87-90
validPosition(currentPosition, m) ==
    LET lineCount == getLineCount(m)
    IN  [lineNumber |-> Min(currentPosition.lineNumber, lineCount),
         column |-> Min(currentPosition.column,
                        getLineMaxColumn(m, Min(currentPosition.lineNumber, lineCount)))]

\* l.94-99
validSelection(currentSelection, m) ==
    LET lineCount == getLineCount(m)
    IN  [startLineNumber |-> Min(currentSelection.startLineNumber, lineCount),
         startColumn |-> Min(currentSelection.startColumn,
                             getLineMaxColumn(m, Min(currentSelection.startLineNumber, lineCount))),
         endLineNumber |-> Min(currentSelection.endLineNumber, lineCount),
         endColumn |-> Min(currentSelection.endColumn,
                           getLineMaxColumn(m, Min(currentSelection.endLineNumber, lineCount)))]

\* editor.setPosition(position): a collapsed selection at the position
setPosition(position) == [anchor |-> position, active |-> position]

\* editor.setSelection(range) with a plain range: the selection runs from
\* the range's start to its end, and the cursor is at the end
setSelection(range) ==
    [anchor |-> Position(range.startLineNumber, range.startColumn),
     active |-> Position(range.endLineNumber, range.endColumn)]

\* the user places the cursor or selects from a to p (either direction)
Select(a, p) ==
    /\ InBounds(a, model)
    /\ InBounds(p, model)
    /\ selection' = [anchor |-> a, active |-> p]
    /\ patched' = FALSE
    /\ UNCHANGED model

\* updateContentWithoutFocus(newContent) on a mounted editor: the position
\* and selection are read, setValue replaces the text, setPosition and then
\* setSelection (an editor with a model always has a selection) restore them
HotPatch(newContent) ==
    LET currentPosition  == getPosition(selection)
        currentSelection == getSelection(selection)
        afterPosition    == setPosition(validPosition(currentPosition, newContent))
        afterSelection   == setSelection(validSelection(currentSelection, newContent))
    IN  /\ model' = newContent
        /\ selection' = afterSelection
        /\ patched' = TRUE

(***************************************************************************)
(* Part IV: the Filesystem Watcher and the Change Broadcast Hub, after the *)
(* design document (4.1, 4.2): every write to a path raises a raw          *)
(* notification, which (re)starts the path's debounce timer; when the      *)
(* timer expires the Hub compares the path's state on disk with the state  *)
(* it broadcast last and emits one event only if the state changed.        *)
(***************************************************************************)
\* the notifications of a window are counted up to MaxRaw
WatcherNotifies(p) ==
    /\ hubDirty' = hubDirty \cup {p}
    /\ rawCount' = [rawCount EXCEPT ![p] = Min(@ + 1, MaxRaw)]

ChangeEvent(p) ==
    [type |-> IF disk[p] = Absent THEN "file_deleted" ELSE "file_changed",
     path |-> p, sender |-> "other"]

\* an expiry that emits one event for every raw notification of the window
EventPerNotification(p, n) == [i \in 1..n |-> ChangeEvent(p)]

\* the events the expiry of p's timer emits after n raw notifications
EventsFor(p, n) == IF disk[p] # hubLast[p] THEN <<ChangeEvent(p)>> ELSE <<>>

NoExpiry == [path |-> NoFile, raw |-> 0, events |-> 0]

debounceAndEmit(p) ==
    /\ p \in hubDirty
    /\ Len(inbox) + Len(EventsFor(p, rawCount[p])) <= MaxInbox
    /\ hubDirty' = hubDirty \ {p}
    /\ inbox' = inbox \o EventsFor(p, rawCount[p])
    /\ hubLast' = [hubLast EXCEPT ![p] = disk[p]]
    /\ lastExpiry' = [path |-> p, raw |-> rawCount[p],
                      events |-> Len(EventsFor(p, rawCount[p]))]
    /\ rawCount' = [rawCount EXCEPT ![p] = 0]
    /\ UNCHANGED <<connVars, docVars, patchVars, treeVars, changes, admitVars>>

\* the tab's listener is called with the next event on the socket
SyncReceive ==
    /\ inbox # <<>>
    /\ handleWebSocketMessage(Head(inbox))
    /\ inbox' = Tail(inbox)
    /\ UNCHANGED <<connVars, patchVars, treeVars, hubLast, hubDirty, changes, rawCount, lastExpiry,
                   admitVars>>

\* /api/write-file succeeds, and the Watcher sees the write
SyncWrite ==
    \E w \in WriteRecords :
        /\ WriteDeliver(w, TRUE)
        /\ WatcherNotifies(w.path)
        /\ UNCHANGED <<connVars, patchVars, treeVars, hubLast, inbox, changes, lastExpiry, admitVars>>

\* another writer changes the open file, outside the quiet window of the
\* change before
SyncExternalWrite ==
    \E c \in Contents :
        /\ changes < MaxChanges
        /\ hubDirty = {}
        /\ ExternalWrite(InsideFile, c)
        /\ changes' = changes + 1
        /\ WatcherNotifies(InsideFile)
        /\ UNCHANGED <<connVars, patchVars, treeVars, hubLast, inbox, lastExpiry, admitVars>>

SyncRead ==
    \E r \in FetchRecords :
        /\ BagIn(r, fetches)
        /\ r.kind \in {"load", "smart"}
        /\ ServerReadAnswer(r, disk[r.path])
        /\ UNCHANGED <<connVars, patchVars, treeVars, hubVars>>

SyncLoad ==
    \E r \in FetchRecords : LoadDeliver(r) /\ UNCHANGED <<connVars, patchVars, treeVars, hubVars>>

SyncDir ==
    \E r \in FetchRecords : DirDeliver(r, TRUE) /\ UNCHANGED <<connVars, patchVars, treeVars, hubVars>>

SyncSmart ==
    \E r \in FetchRecords : SmartDeliver(r) /\ UNCHANGED <<connVars, patchVars, treeVars, hubVars>>

SyncEmit == \E p \in Paths : debounceAndEmit(p)

(***************************************************************************)
(* The Hub on its own.  A writer creates, rewrites, touches (writes the    *)
(* content the file has) or removes the watched file; the Watcher reports  *)
(* each as a raw notification.                                             *)
(***************************************************************************)
RawEvent(p, c) ==
    /\ rawCount[p] < MaxRaw
    /\ disk' = [disk EXCEPT ![p] = c]
    /\ WatcherNotifies(p)
    /\ UNCHANGED <<connVars, patchVars, treeVars, rootPath, selectedFile, fileContent, isLoading,
                   editor, fetches, writes, notice, hubLast, inbox, changes, lastExpiry,
                   admitVars>>

\* broadcast: the event at the head of the send queue leaves the Hub
broadcast ==
    /\ inbox # <<>>
    /\ inbox' = Tail(inbox)
    /\ UNCHANGED <<connVars, docVars, patchVars, treeVars, hubLast, hubDirty, changes, rawCount,
                   lastExpiry, admitVars>>

\* the configured ceiling of concurrent Connections, and the clients
MaxConnections == 2
ConnIds == 1..(MaxConnections + 1)

NoAccept == [conn |-> Null, close |-> Null]

\* an accept that refuses only once the ceiling is exceeded
AdmitsAtCeiling(n) == n <= MaxConnections

\* accept's test: n Connections are held; is there room for one more
Admits(n) == n < MaxConnections

\* accept(clientHandshake): the Connection, or a close with the
\* too-many-connections status
accept(c) ==
    /\ c \notin attached
    /\ IF Admits(Cardinality(attached))
       THEN /\ attached' = attached \cup {c}
            /\ lastAccept' = [conn |-> c, close |-> Null]
       ELSE /\ attached' = attached
            /\ lastAccept' = [conn |-> c, close |-> CloseTooMany]
    /\ UNCHANGED <<connVars, docVars, patchVars, treeVars, hubLast, hubDirty, inbox, changes,
                   rawCount, lastExpiry>>

\* a client disconnects, or a send to it fails: the Hub drops the Connection
disconnect(c) ==
    /\ c \in attached
    /\ attached' = attached \ {c}
    /\ lastAccept' = NoAccept
    /\ UNCHANGED <<connVars, docVars, patchVars, treeVars, hubLast, hubDirty, inbox, changes,
                   rawCount, lastExpiry>>

(***************************************************************************)
(* Part V: the file tree (FileTree.tsx).  The listing is the one of the    *)
(* component's test, with a second level of directories and a second       *)
(* top-level directory.  Every directory item is rendered by a TreeNode of *)
(* its own, whose isExpanded state lives as long as the node is rendered.  *)
(***************************************************************************)
TreeRoot == ""
children ==
    (TreeRoot :> <<"/src", "/docs", "/package.json">>)
    @@ ("/src" :> <<"/src/App.tsx", "/src/lib">>)
    @@ ("/src/lib" :> <<"/src/lib/x.ts">>)
    @@ ("/docs" :> <<"/docs/a.md">>)

Range(seq) == {seq[i] : i \in DOMAIN seq}

\* item.is_directory, and the items of the listing
Directories == DOMAIN children \ {TreeRoot}
TreeItems == UNION {Range(children[d]) : d \in DOMAIN children}
FileItems == TreeItems \ Directories

\* a TreeNode that renders its children whether expanded or not
AlwaysShowsChildren(item, expanded) == item \in Directories

\* item.is_directory && isExpanded && item.children (l.69)
ShowsChildren(item, expanded) == item \in Directories /\ expanded

\* the items a TreeNode and the TreeNodes below it render
RECURSIVE TreeNode(_, _)
TreeNode(item, exp) ==
    {item} \cup
    (IF item \in Directories /\ ShowsChildren(item, exp[item])
     THEN UNION {TreeNode(child, exp) : child \in Range(children[item])}
     ELSE {})

\* the items the FileTree shows
FileTree(exp) == UNION {TreeNode(item, exp) : item \in Range(children[TreeRoot])}

\* handleClick of the TreeNode of a shown item
handleClick(item) ==
    /\ item \in FileTree(isExpanded)
    /\ IF item \in Directories
       THEN \* setIsExpanded(!isExpanded); the nodes no longer rendered are
            \* unmounted and lose their state
            LET toggled == [isExpanded EXCEPT ![item] = ~isExpanded[item]]
            IN  /\ isExpanded' = [d \in Directories |->
                                     d \in FileTree(toggled) /\ toggled[d]]
                /\ UNCHANGED onFileSelectCalls
       ELSE \* onFileSelect(item.path)
            /\ Len(onFileSelectCalls) < MaxCalls
            /\ onFileSelectCalls' = Append(onFileSelectCalls, item)
            /\ UNCHANGED isExpanded
    /\ UNCHANGED <<connVars, docVars, patchVars, hubVars>>

\* useState<boolean>(false) in every TreeNode
TreeInit ==
    /\ isExpanded = [d \in Directories |-> FALSE]
    /\ onFileSelectCalls = <<>>

(***************************************************************************)
(* Specifications.                                                         *)
(***************************************************************************)
ConnInit ==
    /\ revision \in {1, 2}
    /\ sockets = <<>>
    /\ globalWebSocket = Null
    /\ globalListeners = {}
    /\ connectionPromise = Null
    /\ timers = 0
    /\ notified = {}
    /\ lastOp = "init"
    /\ rejected = FALSE
    /\ reconnectDue = FALSE
    /\ viaTimer = {}
    /\ heardOn = Null

\* App after its first render and effects: initializeDirectory has called
\* loadDirectory, nothing is selected, every file exists
DocInit ==
    /\ rootPath = NoRoot
    /\ selectedFile = NoFile
    /\ fileContent = NoContent
    /\ isLoading = TRUE
    /\ editor = NoEditor
    /\ disk = [p \in Paths |-> 1]
    /\ fetches = SetToBag({DirReq(NoRoot)})
    /\ writes = EmptyBag
    /\ notice = "none"

\* a freshly mounted editor: empty text, cursor at line 1, column 1
PatchInit ==
    /\ model = <<0>>
    /\ selection = [anchor |-> Position(1, 1), active |-> Position(1, 1)]
    /\ patched = FALSE

\* the Hub has broadcast nothing and every file is as it was when watched
HubInit ==
    /\ hubLast = [p \in Paths |-> 1]
    /\ hubDirty = {}
    /\ inbox = <<>>
    /\ changes = 0
    /\ rawCount = [p \in Paths |-> 0]
    /\ lastExpiry = NoExpiry
    /\ attached = {}
    /\ lastAccept = NoAccept

Init == ConnInit /\ DocInit /\ PatchInit /\ HubInit /\ TreeInit

\* the Connection Manager
Next ==
    \/ \E l \in Listeners : Subscribe(l) /\ UNCHANGED <<docVars, patchVars, treeVars, hubVars>>
    \/ \E l \in Listeners : Unsubscribe(l) /\ UNCHANGED <<docVars, patchVars, treeVars, hubVars>>
    \/ \E s \in SocketIds : OnOpen(s) /\ UNCHANGED <<docVars, patchVars, treeVars, hubVars>>
    \/ \E s \in SocketIds : OnMessage(s) /\ UNCHANGED <<docVars, patchVars, treeVars, hubVars>>
    \/ \E s \in SocketIds, code \in CloseCodes : OnClose(s, code) /\ UNCHANGED <<docVars, patchVars, treeVars, hubVars>>
    \/ TimerFire /\ UNCHANGED <<docVars, patchVars, treeVars, hubVars>>
    \/ sendMessage /\ UNCHANGED <<docVars, patchVars, treeVars, hubVars>>

Spec == Init /\ [][Next]_vars

\* timers set with setTimeout do fire
LiveSpec == Init /\ [][Next]_vars /\ WF_vars(TimerFire /\ UNCHANGED <<docVars, patchVars, treeVars, hubVars>>)

\* the Connection Manager with its two operations also run out of turn
HookNext ==
    \/ Next
    \/ \E l \in Listeners : Resubscribe(l) /\ UNCHANGED <<docVars, patchVars, treeVars, hubVars>>
    \/ \E l \in Listeners : Reunsubscribe(l) /\ UNCHANGED <<docVars, patchVars, treeVars, hubVars>>

HookSpec == Init /\ [][HookNext]_vars

\* one tab's Reconciliation Engine
DocNext ==
    \/ \E p \in Paths : handleFileSelect(p) /\ UNCHANGED <<connVars, patchVars, treeVars, hubVars>>
    \/ \E r \in FetchRecords : ServerRead(r) /\ UNCHANGED <<connVars, patchVars, treeVars, hubVars>>
    \/ \E r \in FetchRecords : LoadDeliver(r) /\ UNCHANGED <<connVars, patchVars, treeVars, hubVars>>
    \/ \E r \in FetchRecords, ok \in BOOLEAN : DirDeliver(r, ok) /\ UNCHANGED <<connVars, patchVars, treeVars, hubVars>>
    \/ \E m \in Messages : handleWebSocketMessage(m) /\ UNCHANGED <<connVars, patchVars, treeVars, hubVars>>
    \/ \E r \in FetchRecords : SmartDeliver(r) /\ UNCHANGED <<connVars, patchVars, treeVars, hubVars>>
    \/ \E c \in Contents : Keystroke(c) /\ UNCHANGED <<connVars, patchVars, treeVars, hubVars>>
    \/ \E w \in WriteRecords, ok \in BOOLEAN : WriteDeliver(w, ok) /\ UNCHANGED <<connVars, patchVars, treeVars, hubVars>>
    \/ \E p \in Paths, c \in Contents : ExternalWrite(p, c) /\ UNCHANGED <<connVars, patchVars, treeVars, hubVars>>
    \/ \E p \in Paths : ExternalDelete(p) /\ UNCHANGED <<connVars, patchVars, treeVars, hubVars>>

\* the tab is modelled with the first revision of the hook; its state is not read
DocStart == Init /\ revision = 1

DocSpec == DocStart /\ [][DocNext]_vars

\* the continuation of an awaited fetch runs once its response has arrived;
\* nothing makes the server answer
DocLiveSpec ==
    /\ DocStart
    /\ [][DocNext]_vars
    /\ WF_vars(\E r \in FetchRecords : SmartDeliver(r) /\ UNCHANGED <<connVars, patchVars, treeVars, hubVars>>)
    /\ WF_vars(\E r \in FetchRecords : LoadDeliver(r) /\ UNCHANGED <<connVars, patchVars, treeVars, hubVars>>)

\* the tab with only its user acting: no events, no other writer, and a
\* file API that answers every write with success
EditNext ==
    \/ \E p \in Paths : handleFileSelect(p) /\ UNCHANGED <<connVars, patchVars, treeVars, hubVars>>
    \/ \E r \in FetchRecords : ServerRead(r) /\ UNCHANGED <<connVars, patchVars, treeVars, hubVars>>
    \/ \E r \in FetchRecords : LoadDeliver(r) /\ UNCHANGED <<connVars, patchVars, treeVars, hubVars>>
    \/ \E r \in FetchRecords : DirDeliver(r, TRUE) /\ UNCHANGED <<connVars, patchVars, treeVars, hubVars>>
    \/ \E c \in Contents : KeystrokeUpTo(c, MaxEditWrites) /\ UNCHANGED <<connVars, patchVars, treeVars, hubVars>>
    \/ \E w \in WriteRecords : WriteDeliver(w, TRUE) /\ UNCHANGED <<connVars, patchVars, treeVars, hubVars>>

EditSpec == DocStart /\ [][EditNext]_vars

\* the tab with only its user selecting files and typing, and a file API
\* that answers every request with success
SelectNext ==
    \/ \E p \in Paths : handleFileSelect(p) /\ UNCHANGED <<connVars, patchVars, treeVars, hubVars>>
    \/ SyncRead
    \/ SyncLoad
    \/ SyncDir
    \/ \E c \in Contents : Keystroke(c) /\ UNCHANGED <<connVars, patchVars, treeVars, hubVars>>
    \/ \E w \in WriteRecords : WriteDeliver(w, TRUE) /\ UNCHANGED <<connVars, patchVars, treeVars, hubVars>>

SelectSpec == DocStart /\ [][SelectNext]_vars

\* the tab under events for any path, with its user selecting files
EventNext ==
    \/ \E p \in Paths : handleFileSelect(p) /\ UNCHANGED <<connVars, patchVars, treeVars, hubVars>>
    \/ \E r \in FetchRecords : ServerRead(r) /\ UNCHANGED <<connVars, patchVars, treeVars, hubVars>>
    \/ \E r \in FetchRecords : LoadDeliver(r) /\ UNCHANGED <<connVars, patchVars, treeVars, hubVars>>
    \/ \E r \in FetchRecords, ok \in BOOLEAN : DirDeliver(r, ok) /\ UNCHANGED <<connVars, patchVars, treeVars, hubVars>>
    \/ \E m \in AnyMessages : handleWebSocketMessage(m) /\ UNCHANGED <<connVars, patchVars, treeVars, hubVars>>
    \/ \E r \in FetchRecords : SmartDeliver(r) /\ UNCHANGED <<connVars, patchVars, treeVars, hubVars>>
    \/ \E w \in WriteRecords, ok \in BOOLEAN : WriteDeliver(w, ok) /\ UNCHANGED <<connVars, patchVars, treeVars, hubVars>>

EventSpec == DocStart /\ [][EventNext]_vars

\* one tab with the file under the root open, the Hub, and a file API that
\* always answers with success; the user only opens the file
SyncNext ==
    \/ handleFileSelect(InsideFile) /\ UNCHANGED <<connVars, patchVars, treeVars, hubVars>>
    \/ SyncExternalWrite
    \/ SyncEmit
    \/ SyncReceive
    \/ SyncRead
    \/ SyncLoad
    \/ SyncDir
    \/ SyncSmart
    \/ SyncWrite

\* timers expire, events on the socket are handled, requests are answered
\* and their continuations run
SyncSpec ==
    /\ DocStart
    /\ [][SyncNext]_vars
    /\ WF_vars(SyncEmit)
    /\ WF_vars(SyncReceive)
    /\ WF_vars(SyncRead)
    /\ WF_vars(SyncLoad)
    /\ WF_vars(SyncDir)
    /\ WF_vars(SyncSmart)
    /\ WF_vars(SyncWrite)

\* the Hub: raw notifications of the watched file, timer expiries, the
\* send queue, and clients connecting and disconnecting
HubNext ==
    \/ \E c \in Contents \cup {Absent} : RawEvent(InsideFile, c)
    \/ debounceAndEmit(InsideFile)
    \/ broadcast
    \/ \E c \in ConnIds : accept(c)
    \/ \E c \in ConnIds : disconnect(c)

HubSpec == DocStart /\ [][HubNext]_vars

\* the file tree under the user's clicks
TreeNext == \E item \in TreeItems : handleClick(item)

TreeSpec == DocStart /\ [][TreeNext]_vars

\* the editor under the user's selections and hot-patches
PatchNext ==
    \/ \E a, p \in Positions : Select(a, p) /\ UNCHANGED <<connVars, docVars, hubVars, treeVars>>
    \/ \E t \in Texts : HotPatch(t) /\ UNCHANGED <<connVars, docVars, hubVars, treeVars>>

PatchSpec == DocStart /\ [][PatchNext]_vars

TypeOK ==
    /\ revision \in {1, 2}
    /\ DOMAIN sockets \subseteq SocketIds
    /\ \A s \in DOMAIN sockets : sockets[s] \in {"CONNECTING", "OPEN", "CLOSING"}
    /\ globalWebSocket \in SocketIds \cup {Null}
    /\ globalWebSocket # Null => globalWebSocket \in DOMAIN sockets /\ sockets[globalWebSocket] = "OPEN"
    /\ connectionPromise \in SocketIds \cup {Null}
    /\ connectionPromise # Null => connectionPromise \in DOMAIN sockets
    /\ globalListeners \subseteq Listeners
    /\ timers \in 0..MaxLive
    /\ Load <= MaxLive
    /\ viaTimer \subseteq DOMAIN sockets
    /\ heardOn \in DOMAIN sockets \cup {Null}
    /\ rootPath \in {NoRoot, RootDir}
    /\ selectedFile \in Paths \cup {NoFile}
    /\ fileContent = NoContent \/ fileContent \in [path : Paths, content : Contents]
    /\ isLoading \in BOOLEAN
    /\ editor = NoEditor \/ editor \in [path : Paths, text : Contents, unsaved : BOOLEAN]
    /\ \A p \in Paths : disk[p] \in Contents \cup {Absent}
    /\ BagToSet(fetches) \subseteq FetchRecords
    /\ BagCardinality(fetches) <= MaxFetches
    /\ BagToSet(writes) \subseteq WriteRecords
    /\ BagCardinality(writes) <= MaxEditWrites
    /\ model \in Texts
    /\ InBounds(selection.anchor, model)
    /\ InBounds(selection.active, model)
    /\ \A p \in Paths : hubLast[p] \in Contents \cup {Absent}
    /\ hubDirty \subseteq Paths
    /\ Len(inbox) <= MaxInbox
    /\ changes \in 0..MaxChanges
    /\ \A p \in Paths : rawCount[p] \in 0..MaxRaw
    /\ lastExpiry.raw \in 0..MaxRaw /\ lastExpiry.events \in 0..MaxInbox
    /\ attached \subseteq ConnIds
    /\ isExpanded \in [Directories -> BOOLEAN]
    /\ Len(onFileSelectCalls) <= MaxCalls
    /\ lastAccept.close \in {Null, CloseTooMany}

(***************************************************************************)
(* Properties of the Connection Manager.                                   *)
(***************************************************************************)

\* C1: at every moment at most one WebSocket created by the Connection
\* Manager is in state CONNECTING or OPEN, however many listeners are
\* registered.
C1_AtMostOneLiveSocket == Cardinality(LiveSockets) <= 1

\* C2: while the listener set is empty no underlying connection is open or
\* connecting (a socket still connecting at the last unsubscribe and a
\* reconnect timer set earlier included).
C2_NoConnectionWithoutListeners == globalListeners = {} => LiveSockets = {}

\* the manager called close() on a socket in this step
ManagerClosed ==
    \E s \in DOMAIN sockets \cap DOMAIN sockets' :
        sockets[s] = "OPEN" /\ sockets'[s] = "CLOSING"

\* C3: the manager closes the shared socket only in a step that leaves the
\* listener set empty; unsubscribing one of several listeners leaves the
\* socket table and the global socket as they were, and a frame arriving on
\* an open socket is handed to exactly the listeners still registered.
C3_NoCloseWhileListeners ==
    [][ /\ ManagerClosed => globalListeners' = {}
        /\ (lastOp' = "unsubscribe" /\ globalListeners' # {})
              => (sockets' = sockets /\ globalWebSocket' = globalWebSocket
                  /\ connectionPromise' = connectionPromise)
        /\ lastOp' = "message" => notified' = globalListeners' ]_vars

\* one of two listeners has unsubscribed and the shared socket is still open
C3_Witness ==
    /\ lastOp = "unsubscribe"
    /\ globalListeners # {}
    /\ globalWebSocket # Null
    /\ sockets[globalWebSocket] = "OPEN"

\* C9: after a close with the too-many-connections status (1008) no new
\* connection attempt is made until a hook call (subscribe, unsubscribe,
\* sendMessage) occurs.
C9_NoReconnectAfterRejection ==
    [][(rejected /\ rejected') => DOMAIN sockets' \subseteq DOMAIN sockets]_vars

\* C10: after every close with a status other than 1008 that finds a
\* listener registered (the first close and every failed attempt alike), the
\* retry runs createConnection eventually.
C10_ReconnectEventually == reconnectDue ~> ~reconnectDue

\* a retry has just run for a registered listener and a socket is connecting
C10_Witness ==
    /\ lastOp = "timer"
    /\ ~reconnectDue
    /\ globalListeners # {}
    /\ \E s \in DOMAIN sockets : sockets[s] = "CONNECTING"

\* the state of the connection as the hook's callers can observe it
connState == <<sockets, globalWebSocket, connectionPromise, timers>>

\* C11: a sendMessage call that finds the connection not open sends
\* nothing and leaves the connection state (sockets, global socket, promise,
\* timers) and the listener set as they were: it is a no-op.
C11_SendWhenClosedIsNoOp ==
    [][(sendMessage /\ ~IsOpen(globalWebSocket))
          => (/\ lastOp' = "dropped"
              /\ connState' = connState
              /\ globalListeners' = globalListeners)]_vars

FileFetchCount(bag) ==
    BagCardinality(bag) - CopiesIn(DirReq(RootDir), bag) - CopiesIn(DirReq(NoRoot), bag)

Fetched(r) == r.resp \notin {Pending, Failed}

\* the selected file is loaded and shown in the editor
DocumentOpen ==
    /\ selectedFile # NoFile
    /\ fileContent.path = selectedFile
    /\ editor # NoEditor
    /\ editor.path = selectedFile

\* C4: a file_changed event for the open document whose origin tag is the
\* tab's own starts no file-content request.
C4_SelfOriginNoRefetch ==
    [][\A m \in Messages :
          (/\ m.type = "file_changed"
           /\ m.sender = "self"
           /\ m.path = selectedFile
           /\ DocumentOpen
           /\ handleWebSocketMessage(m))
          => FileFetchCount(fetches') <= FileFetchCount(fetches)]_vars

\* C5: a file_changed event for the open document from another origin
\* starts one re-fetch and leaves the open editor mounted, and the fetched
\* content is then set in that editor in place (same editor, new text).
C5_HotPatchInPlace ==
    [][ /\ \A m \in Messages :
              (/\ m.type = "file_changed"
               /\ m.sender = "other"
               /\ m.path = selectedFile
               /\ DocumentOpen
               /\ handleWebSocketMessage(m))
              => (/\ FileFetchCount(fetches') = FileFetchCount(fetches) + 1
                  /\ editor' = editor)
        /\ \A r \in FetchRecords :
              (/\ Fetched(r)
               /\ r.path = selectedFile
               /\ DocumentOpen
               /\ SmartDeliver(r))
              => editor' = [editor EXCEPT !.text = r.resp, !.unsaved = FALSE] ]_vars

\* C6: no step replaces, by content that did not come from the user, the
\* text of an editor holding an edit whose write has not reached the disk.
C6_NoUnsavedInputLost ==
    [][~(/\ editor.unsaved
         /\ editor' # NoEditor
         /\ editor'.path = editor.path
         /\ ~editor'.unsaved
         /\ editor'.text # editor.text)]_vars

\* C7: the response of a hot-patch re-fetch that arrives after the user has
\* selected (and opened) another document changes neither the editor nor
\* fileContent.
C7_LateResponseDiscarded ==
    [][\A r \in FetchRecords :
          (/\ Fetched(r)
           /\ DocumentOpen
           /\ r.path # selectedFile
           /\ SmartDeliver(r))
          => (editor' = editor /\ fileContent' = fileContent)]_vars

\* no write request is started in this step
NoNewWrite == \A w \in WriteRecords : CopiesIn(w, writes') <= CopiesIn(w, writes)

\* C8: a file_deleted event for the open document shows the deletion notice
\* and clears selectedFile and fileContent (the editor goes with them);
\* nothing is selected and no write is started from then until the user
\* selects a file, and a write is only ever started for the selected path,
\* so none goes to the deleted path unless the user selects it again.
C8_DeletedDocumentCleared ==
    [][ /\ \A m \in Messages :
              (/\ m.type = "file_deleted"
               /\ m.path = selectedFile
               /\ handleWebSocketMessage(m))
              => (/\ notice' = "deleted"
                  /\ selectedFile' = NoFile
                  /\ fileContent' = NoContent
                  /\ editor' = NoEditor
                  /\ NoNewWrite)
        /\ selectedFile = NoFile
              => \/ selectedFile' = NoFile /\ NoNewWrite
                 \/ \E p \in Paths : handleFileSelect(p)
        /\ \A w \in WriteRecords :
              CopiesIn(w, writes') > CopiesIn(w, writes) => w.path = selectedFile ]_vars

\* the deletion notice is up and the open-document state is cleared
C8_Witness ==
    /\ notice = "deleted"
    /\ selectedFile = NoFile
    /\ fileContent = NoContent
    /\ editor = NoEditor

\* C13: when the re-fetch of a smart update fails (network error or
\* non-OK response), the continuation starts loadFileContent for the
\* document the event was for: one more load request for that path is in
\* flight, isLoading is set and the editor showing the old content is
\* discarded; the failure is logged, not alerted or thrown; and the reload's
\* response, when it is delivered with content, becomes fileContent.
C13_FallbackReload ==
    [][ /\ \A r \in FetchRecords :
              (r.resp = Failed /\ SmartDeliver(r))
              => (/\ CopiesIn(FileReq("load", r.path), fetches')
                        = CopiesIn(FileReq("load", r.path), fetches) + 1
                  /\ isLoading'
                  /\ editor' = NoEditor
                  /\ notice' = "fallback"
                  /\ fileContent' = fileContent)
        /\ \A r \in FetchRecords :
              (Fetched(r) /\ LoadDeliver(r))
              => fileContent' = [path |-> r.path, content |-> r.resp] ]_vars

\* the fallback reload of the open document is in flight
C13_Witness ==
    /\ notice = "fallback"
    /\ editor = NoEditor
    /\ selectedFile # NoFile
    /\ fileContent.path = selectedFile
    /\ isLoading
    /\ BagIn(FileReq("load", selectedFile), fetches)

\* C14: a smart update's re-fetch that is waiting for its response does not
\* wait forever: it is resolved (by the response, or by a timeout that takes
\* the fallback) eventually.
C14_RefetchResolves ==
    \A p \in Paths :
        BagIn(FileReq("smart", p), fetches) ~> ~BagIn(FileReq("smart", p), fetches)

\* C15: no step other than the user's typing starts a write request:
\* handling an event, delivering a re-fetch, a reload or a tree listing
\* leaves the writes in flight as they were.
C15_NoWriteFromEvents ==
    [][NoNewWrite \/ \E c \in Contents : Keystroke(c)]_vars

\* a path strictly inside the directory root
Under(path, root) ==
    /\ Len(path) > Len(root) + 1
    /\ SubSeq(path, 1, Len(root)) = root
    /\ path[Len(root) + 1] = "/"

\* C16: a file_changed or file_deleted event whose path is under the
\* displayed root and is not the open document starts one listing of the
\* root (and nothing else: no file request, selection and content kept).
C16_TreeRelisted ==
    [][\A m \in Messages :
          (/\ m.type \in {"file_changed", "file_deleted"}
           /\ rootPath # NoRoot
           /\ Under(m.path, rootPath)
           /\ m.path # selectedFile
           /\ handleWebSocketMessage(m))
          => (/\ CopiesIn(DirReq(rootPath), fetches')
                    = CopiesIn(DirReq(rootPath), fetches) + 1
              /\ FileFetchCount(fetches') = FileFetchCount(fetches)
              /\ selectedFile' = selectedFile
              /\ fileContent' = fileContent)]_vars

\* a listing of the root is in flight while another document is open
C16_Witness ==
    /\ rootPath = RootDir
    /\ BagIn(DirReq(RootDir), fetches)
    /\ isLoading
    /\ selectedFile = OutsideFile
    /\ fileContent.path = OutsideFile
    /\ FileFetchCount(fetches) = 0

\* the file_changed event from another origin for the same path
AsFileChanged(m) == [m EXCEPT !.type = "file_changed", !.sender = "other"]

\* C17: a sync_tabs event for the open document starts the same file
\* request as the external file_changed event for it and leaves the editor
\* as that event would leave it (so the response, which the same
\* continuation handles, patches the same editor in place); a sync_tabs
\* event for any other path changes nothing.
C17_SyncTabsLikeFileChanged ==
    [][\A m \in Messages :
          (m.type = "sync_tabs" /\ handleWebSocketMessage(m))
          => IF DocumentOpen /\ m.path = selectedFile
             THEN /\ fetches' = fetches (+) FileRequests(AsFileChanged(m))
                  /\ editor' = Render(fileContent, LoadingAfter(AsFileChanged(m)), editor)
                  /\ fileContent' = fileContent
                  /\ selectedFile' = selectedFile
             ELSE m.path # selectedFile
                     => UNCHANGED <<rootPath, selectedFile, fileContent, isLoading,
                                    editor, disk, fetches, writes>>]_vars

\* C19: every content change of the editor of the selected file has issued
\* a write of the new text to that path, and once the user has stopped and
\* no write request is in flight (all have succeeded) the file on disk holds
\* the text in the editor: no write of an earlier edit lands after the write
\* of a later one.
C19_DiskEqualsFinalText ==
    (/\ DocumentOpen
     /\ ~isLoading
     /\ writes = EmptyBag
     /\ FileFetchCount(fetches) = 0)
    => disk[selectedFile] = editor.text

\* two edits of the open file are in flight at once
C19_Witness ==
    /\ DocumentOpen
    /\ BagCardinality(writes) = 2
    /\ \A w \in BagToSet(writes) : w.path = selectedFile

\* the tab is at rest showing what is on disk
Settled ==
    /\ writes = EmptyBag
    /\ (DocumentOpen /\ ~isLoading) => editor.text = disk[selectedFile]

\* C20: once the other writers have stopped changing the open file, the
\* tab's editor comes to show, and keeps showing, the content on disk, and
\* from some point on no write request is in flight (the saves, events and
\* re-fetches die out).
C20_EventuallyConsistent == <>[]Settled

(***************************************************************************)
(* Properties of the hot-patch of cursor and selection.                    *)
(***************************************************************************)

\* C12: for every cursor position (L, C) and every new text, the cursor
\* after a hot-patch is (L, C) when the new text has at least L lines and
\* line L reaches column C; otherwise its line is the smaller of L and the
\* new line count and its column the smaller of C and the maximum column of
\* that line; in both cases it lies inside the new text.
C12_CursorRestoredOrClamped ==
    [][\A t \in Texts :
          HotPatch(t) =>
             LET L == selection.active.lineNumber
                 C == selection.active.column
                 line == Min(L, getLineCount(t))
             IN  /\ (L <= getLineCount(t) /\ C <= getLineMaxColumn(t, L))
                        => selection'.active = Position(L, C)
                 /\ selection'.active = Position(line, Min(C, getLineMaxColumn(t, line)))
                 /\ InBounds(selection'.active, t)]_vars

\* a hot-patch has run on an editor whose cursor was inside a longer text
C12_Witness == patched /\ Len(model) = 1 /\ selection.active = Position(1, 1)

(***************************************************************************)
(* Properties of the Change Broadcast Hub.                                 *)
(***************************************************************************)
\* the events for path p in a send queue
EventsOf(p, queue) == Len(SelectSeq(queue, LAMBDA e : e.path = p))

\* C21 as stated: whatever raw notifications fell into the debounce window
\* of a path (one or more), the expiry of its timer emits exactly one
\* ChangeEvent for that path.
C21_ExactlyOneEvent ==
    [][\A p \in Paths :
          (rawCount[p] >= 1 /\ debounceAndEmit(p))
          => EventsOf(p, inbox') = EventsOf(p, inbox) + 1]_vars

\* C21, amended: the raw notifications of one debounce window lead to one
\* ChangeEvent for the path when the path's state on disk at the expiry
\* differs from the state broadcast last (content-changed, or deleted when
\* the file is gone) and to none when it does not; no event is emitted
\* before the timer expires.
C21_OneEventPerChangedWindow ==
    [][ /\ \A p \in Paths :
              (rawCount[p] >= 1 /\ debounceAndEmit(p))
              => /\ EventsOf(p, inbox')
                       = EventsOf(p, inbox) + (IF disk[p] # hubLast[p] THEN 1 ELSE 0)
                 /\ disk[p] # hubLast[p]
                       => inbox'[Len(inbox')].type
                             = (IF disk[p] = Absent THEN "file_deleted" ELSE "file_changed")
                 /\ \A q \in Paths \ {p} : EventsOf(q, inbox') = EventsOf(q, inbox)
        /\ (\A p \in Paths : ~debounceAndEmit(p)) => Len(inbox') <= Len(inbox) ]_vars

\* three raw notifications fell into one window and one event was emitted
C21_Witness ==
    /\ lastExpiry.path = InsideFile
    /\ lastExpiry.raw = 3
    /\ lastExpiry.events = 1
    /\ EventsOf(InsideFile, inbox) = 1

\* C22: the Hub never holds more Connections than its ceiling, and an
\* accept made while it holds as many as the ceiling allows answers with the
\* too-many-connections status (which no other closure carries) and leaves
\* the set of attached Connections as it was.
C22_CeilingRespected ==
    [][ /\ Cardinality(attached') <= MaxConnections
        /\ \A c \in ConnIds :
              (Cardinality(attached) = MaxConnections /\ accept(c))
              => (/\ attached' = attached
                  /\ lastAccept' = [conn |-> c, close |-> CloseTooMany])
        /\ \A c \in ConnIds :
              (Cardinality(attached) < MaxConnections /\ accept(c))
              => (/\ attached' = attached \cup {c}
                  /\ lastAccept'.close # CloseTooMany) ]_vars

\* the Hub is at its ceiling and has just rejected one more client
C22_Witness ==
    /\ Cardinality(attached) = MaxConnections
    /\ lastAccept.close = CloseTooMany
    /\ lastAccept.conn \notin attached

(***************************************************************************)
(* Properties of the file tree.                                            *)
(***************************************************************************)
\* the directory whose listing holds the item
ParentOf(item) == CHOOSE d \in DOMAIN children : item \in Range(children[d])

\* C23: a click on a file item calls onFileSelect once, with that item's
\* path, and leaves every isExpanded as it was; a click on a directory item
\* flips that directory's isExpanded and calls nothing; and an item below
\* the top level is shown only while its parent directory is shown and
\* expanded (every directory is collapsed when its node is first rendered).
C23_TreeClicks ==
    /\ [](\A item \in FileTree(isExpanded) :
            ParentOf(item) # TreeRoot
            => (ParentOf(item) \in FileTree(isExpanded) /\ isExpanded[ParentOf(item)]))
    /\ [](\A d \in Directories : d \notin FileTree(isExpanded) => ~isExpanded[d])
    /\ [][\A item \in TreeItems :
             handleClick(item)
             => IF item \in Directories
                THEN /\ isExpanded'[item] = ~isExpanded[item]
                     /\ onFileSelectCalls' = onFileSelectCalls
                ELSE /\ onFileSelectCalls' = Append(onFileSelectCalls, item)
                     /\ isExpanded' = isExpanded]_vars

\* the file two levels down has been clicked after both directories above
\* it were expanded
C23_Witness ==
    /\ isExpanded["/src"]
    /\ isExpanded["/src/lib"]
    /\ onFileSelectCalls # <<>>
    /\ onFileSelectCalls[Len(onFileSelectCalls)] = "/src/lib/x.ts"

(***************************************************************************)
(* Further properties of the Connection Manager.                           *)
(***************************************************************************)
\* socket s is not the current one: neither the global socket nor the
\* socket the connection promise is tied to, while one of the two is set
Superseded(s) ==
    /\ s # globalWebSocket
    /\ s # connectionPromise
    /\ (globalWebSocket # Null \/ connectionPromise # Null)

\* C24: the close event of a socket that is not the current one (the
\* manager closed it at the last unsubscribe, or a newer socket took its
\* place) leaves the global socket and the connection promise as they were
\* and sets no reconnect timer.
C24_StaleCloseIgnored ==
    [][\A s \in SocketIds, code \in CloseCodes :
          (Superseded(s) /\ OnClose(s, code))
          => (/\ globalWebSocket' = globalWebSocket
              /\ connectionPromise' = connectionPromise
              /\ timers' = timers)]_vars

\* C25: a frame received on the active socket is handed to every listener
\* registered at that moment (the listener set is a Set and each element is
\* called once) and to no one else; a close, the reconnect timer and the
\* opening of the new socket leave the listener set as it is, and a frame
\* received on a socket the reconnect timer constructed is handed to the
\* listeners registered then, which include every listener registered
\* before the disconnect that has not unsubscribed.
C25_DeliveredToEveryListener ==
    [][ /\ \A s \in SocketIds :
              ((s = globalWebSocket \/ s \in viaTimer) /\ OnMessage(s))
              => (notified' = globalListeners /\ globalListeners' = globalListeners)
        /\ lastOp' \in {"close", "rejected", "timer", "open"}
              => globalListeners' = globalListeners ]_vars

\* a frame has arrived on the socket the reconnect timer constructed, now
\* the active one, and both listeners have been called
C25_Witness ==
    /\ lastOp = "message"
    /\ heardOn # Null
    /\ heardOn \in viaTimer
    /\ heardOn = globalWebSocket
    /\ notified = globalListeners
    /\ Cardinality(notified) = 2

(***************************************************************************)
(* Further properties of the Reconciliation Engine.                        *)
(***************************************************************************)
\* C26: the response of a load for a file other than the selected one,
\* delivered when the content of the selected file is already loaded, does
\* not replace it; and whenever a file is selected, a content is loaded and
\* no file-content request is in flight, the content is the selected file's.
C26_LatestSelectionShown ==
    /\ [][\A r \in FetchRecords :
             (/\ Fetched(r)
              /\ selectedFile # NoFile
              /\ r.path # selectedFile
              /\ fileContent.path = selectedFile
              /\ LoadDeliver(r))
             => fileContent' = fileContent]_vars
    /\ []((/\ selectedFile # NoFile
           /\ fileContent # NoContent
           /\ FileFetchCount(fetches) = 0)
          => fileContent.path = selectedFile)

\* C27: once the open-document state is cleared (nothing selected, no
\* content: the state a file_deleted event for the open document leaves),
\* it stays cleared until the user selects a file; no response of a request
\* started earlier puts a content back.
C27_StaysClearedAfterDelete ==
    [][(selectedFile = NoFile /\ fileContent = NoContent)
          => (/\ fileContent' = NoContent
              /\ selectedFile' = NoFile \/ \E p \in Paths : handleFileSelect(p))]_vars

\* C28: a file_changed or file_deleted event for another path that starts
\* a listing of the root leaves the mounted editor of the open document as
\* it is (same editor, same text), and so does the delivery of the listing.
C28_RelistLeavesEditor ==
    [][ /\ \A m \in Messages :
              (/\ m.type \in {"file_changed", "file_deleted"}
               /\ m.path # selectedFile
               /\ TreeRequests(m) # EmptyBag
               /\ DocumentOpen
               /\ handleWebSocketMessage(m))
              => editor' = editor
        /\ \A r \in FetchRecords, ok \in BOOLEAN :
              (DocumentOpen /\ DirDeliver(r, ok)) => editor' = editor ]_vars

\* listings of the tree in a bag of requests
DirCount(bag) == CopiesIn(DirReq(RootDir), bag) + CopiesIn(DirReq(NoRoot), bag)

\* C29: a file_changed or file_deleted event whose path is not inside the
\* displayed root (a path under another directory, also one whose name
\* begins with the root's; no path at all; or no root loaded) starts no
\* listing of the tree.
C29_NoRelistOutsideRoot ==
    [][\A m \in AnyMessages :
          (/\ m.type \in {"file_changed", "file_deleted"}
           /\ ~(rootPath # NoRoot /\ Under(m.path, rootPath))
           /\ handleWebSocketMessage(m))
          => DirCount(fetches') = DirCount(fetches)]_vars

(***************************************************************************)
(* Further properties of the hot-patch of cursor and selection.            *)
(***************************************************************************)
\* C30: the selection a hot-patch restores (from the ordered range that
\* getSelection returns) starts at or before its end, and both its ends lie
\* inside the new text, whatever the old selection and the new text.
C30_SelectionWellFormed ==
    [][\A t \in Texts :
          HotPatch(t)
          => (/\ Before(selection'.anchor, selection'.active)
              /\ InBounds(selection'.anchor, t)
              /\ InBounds(selection'.active, t))]_vars

\* a selection that spanned two lines has been restored in a one-line text
C30_Witness ==
    /\ patched
    /\ Len(model) = 1
    /\ selection.anchor # selection.active
====
